---- MODULE Spec2Model ----
(***************************************************************************)
(* Model of anansi-aux/src/lib.rs: the client-side runtime that patches a  *)
(* live document tree from virtual nodes (rerender / update /              *)
(* check_siblings), keeps the callback and recall registries (setup, call, *)
(* recall) and resolves captured variables (lexical_scope).                *)
(*                                                                         *)
(* Strings that the code parses or compares (descriptors, identifiers,     *)
(* rids, attribute keys and values, comment text) are sequences of         *)
(* one-character strings, so that split_once, rsplit_once, split, parse    *)
(* and to_string are computed and not assumed.  Element tags are atomic:   *)
(* node_name() is taken to return the name create_element was given.       *)
(*                                                                         *)
(* A panic (unwrap on None, expect, unimplemented!, a RefCell borrow       *)
(* conflict) aborts the entry point: the mutations made so far stay, the   *)
(* variable panicked records the reason and no further entry point runs.   *)
(***************************************************************************)
EXTENDS Integers, Sequences, FiniteSets, TLC

\* ------------------------------------------------------------------ bounds
\* Number of entry-point invocations explored after setup.
MaxOps == 3

\* ------------------------------------------------------- string primitives
Digits == <<"0", "1", "2", "3", "4", "5", "6", "7", "8", "9">>

IsDigit(c) == \E i \in 1..10 : Digits[i] = c

DigitVal(c) == (CHOOSE i \in 1..10 : Digits[i] = c) - 1

\* str::find(char): index of the first occurrence, 0 when absent.
FindChar(s, c) ==
    IF \E i \in 1..Len(s) : s[i] = c
    THEN CHOOSE i \in 1..Len(s) : s[i] = c /\ \A j \in 1..(i - 1) : s[j] # c
    ELSE 0

\* str::rfind(char): index of the last occurrence, 0 when absent.
RFindChar(s, c) ==
    IF \E i \in 1..Len(s) : s[i] = c
    THEN CHOOSE i \in 1..Len(s) : s[i] = c /\ \A j \in (i + 1)..Len(s) : s[j] # c
    ELSE 0

\* str::split_once(char): None, or (before, after) around the first occurrence.
split_once(s, c) ==
    LET i == FindChar(s, c)
    IN  IF i = 0 THEN [some |-> FALSE, a |-> <<>>, b |-> <<>>]
        ELSE [some |-> TRUE, a |-> SubSeq(s, 1, i - 1), b |-> SubSeq(s, i + 1, Len(s))]

\* str::rsplit_once(char): None, or (before, after) around the last occurrence.
rsplit_once(s, c) ==
    LET i == RFindChar(s, c)
    IN  IF i = 0 THEN [some |-> FALSE, a |-> <<>>, b |-> <<>>]
        ELSE [some |-> TRUE, a |-> SubSeq(s, 1, i - 1), b |-> SubSeq(s, i + 1, Len(s))]

\* str::split(char).collect(): the pieces between the separators; the empty
\* string yields one empty piece.
RECURSIVE split(_, _)
split(s, c) ==
    LET i == FindChar(s, c)
    IN  IF i = 0 THEN <<s>>
        ELSE <<SubSeq(s, 1, i - 1)>> \o split(SubSeq(s, i + 1, Len(s)), c)

\* str::starts_with(prefix).
starts_with(s, p) == Len(s) >= Len(p) /\ SubSeq(s, 1, Len(p)) = p

\* str::parse::<usize>(): Err on the empty string and on any non-digit.
RECURSIVE DigitsValue(_)
DigitsValue(s) ==
    IF s = <<>> THEN 0 ELSE 10 * DigitsValue(SubSeq(s, 1, Len(s) - 1)) + DigitVal(s[Len(s)])

parse_usize(s) ==
    IF s # <<>> /\ \A i \in 1..Len(s) : IsDigit(s[i])
    THEN [ok |-> TRUE, val |-> DigitsValue(s)]
    ELSE [ok |-> FALSE, val |-> 0]

\* usize::to_string(): the decimal digits, no leading zero.
RECURSIVE to_string(_)
to_string(n) ==
    IF n < 10 THEN <<Digits[n + 1]>> ELSE to_string(n \div 10) \o <<Digits[(n % 10) + 1]>>

\* -------------------------------------------------------- string constants
K_rid   == <<"r", "i", "d">>
K_on    == <<"o", "n", ":", "c">>
K_on2   == <<"o", "n", ":", "k">>
K_cls   == <<"c", "l", "s">>
ON_PREFIX == <<"o", "n", ":">>
AV_END  == <<"/", "a", "v">>
AV_PREFIX == <<"a", "v", " ">>
AV_ID_KEY == <<"a", ":", "i", "d">>
AV_0    == <<"a", "v", " ", "a", ":", "i", "d", "=", "0">>
AV_1    == <<"a", "v", " ", "a", ":", "i", "d", "=", "1">>

\* ------------------------------------------------- host document interface
\* A live node.  parent = 0 and a node that is not the body: detached.
NewNode(t, nm, d) ==
    [type |-> t, name |-> nm, data |-> d, attrs |-> <<>>, kids |-> <<>>, parent |-> 0]

Body == 1

IndexIn(s, x) == CHOOSE i \in 1..Len(s) : s[i] = x

InsertAt(s, i, x) == SubSeq(s, 1, i - 1) \o <<x>> \o SubSeq(s, i, Len(s))

RemoveAt(s, i) == SubSeq(s, 1, i - 1) \o SubSeq(s, i + 1, Len(s))

parent_node(nodes, n) == nodes[n].parent

first_child(nodes, n) == IF nodes[n].kids = <<>> THEN 0 ELSE nodes[n].kids[1]

next_sibling(nodes, n) ==
    LET p == nodes[n].parent
    IN  IF p = 0 THEN 0
        ELSE LET ks == nodes[p].kids
                 i  == IndexIn(ks, n)
             IN  IF i < Len(ks) THEN ks[i + 1] ELSE 0

\* NamedNodeMap.getNamedItem: index of the attribute, 0 when absent.
get_named_item(nodes, n, key) ==
    LET as == nodes[n].attrs
    IN  IF \E i \in 1..Len(as) : as[i].key = key
        THEN CHOOSE i \in 1..Len(as) : as[i].key = key
        ELSE 0

\* Element.setAttribute: overwrite the value of an existing key, else append.
set_attribute(nodes, n, key, value) ==
    LET i == get_named_item(nodes, n, key)
    IN  IF i = 0
        THEN [nodes EXCEPT ![n].attrs = Append(@, [key |-> key, value |-> value])]
        ELSE [nodes EXCEPT ![n].attrs[i].value = value]

\* Node.appendChild of a node that has no parent yet.
append_child(nodes, p, c) ==
    [nodes EXCEPT ![p].kids = Append(@, c), ![c].parent = p]

\* Node.insertBefore(new, ref) of a node that has no parent yet.
insert_before(nodes, p, new, ref) ==
    [nodes EXCEPT ![p].kids = InsertAt(@, IndexIn(@, ref), new), ![new].parent = p]

\* ChildNode.after(new): no effect when the node has no parent.
after_with_node(nodes, n, new) ==
    LET p == nodes[n].parent
    IN  IF p = 0 THEN nodes
        ELSE [nodes EXCEPT ![p].kids = InsertAt(@, IndexIn(@, n) + 1, new),
                           ![new].parent = p]

\* Node.removeChild: the caller has checked that c is a child of p.
remove_child(nodes, p, c) ==
    [nodes EXCEPT ![p].kids = RemoveAt(@, IndexIn(@, c)), ![c].parent = 0]

\* Node.replaceChild(new, old) with a new node that has no parent yet.
replace_child(nodes, p, new, old) ==
    LET i == IndexIn(nodes[p].kids, old)
    IN  [nodes EXCEPT ![p].kids[i] = new, ![new].parent = p, ![old].parent = 0]

\* The node is in the document: its parent chain ends at the body.
RECURSIVE Attached(_, _)
Attached(nodes, n) ==
    IF n = Body THEN TRUE
    ELSE IF nodes[n].parent = 0 THEN FALSE
    ELSE Attached(nodes, nodes[n].parent)

\* Node.nodeName: the tag of an element, "#text", "#comment".
node_name(nodes, n) == nodes[n].name

\* ------------------------------------------------------------ virtual nodes
\* Rsx (lines 522-527) with Elem, Comp and Attribute; one record shape for
\* the three variants, the fields a variant lacks are empty.
Element(name, attrs, children) ==
    [t |-> "Element", name |-> name, attrs |-> attrs, children |-> children, text |-> <<>>]

Text(text) ==
    [t |-> "Text", name |-> "", attrs |-> <<>>, children |-> <<>>, text |-> text]

Component(children) ==
    [t |-> "Component", name |-> "", attrs |-> <<>>, children |-> children, text |-> <<>>]

Attribute(key, value) == [key |-> key, value |-> value]

\* ------------------------------------------------- the program state record
\* Every operation below maps a record st of the whole program state to the
\* record after it.  nodes: the document.  recalls, rid, callbacks, node_id,
\* ids, contexts, vnode_map, app: RECALLS, RID, CALLBACKS, NODE_ID, IDS,
\* CONTEXTS, VNODE_MAP, APP_STATE (33-49).  heap: the objects behind the
\* Rc<RefCell<..>> handles.  Locals of the running entry point: node (the
\* `&mut Node` being addressed), ret (the value returned last), anchor,
\* cbLock (CALLBACKS is mutably borrowed), rcLock (RECALLS is borrowed),
\* panic ("" or the reason the entry point aborted), log (what diff did),
\* trace (constructor and invoker executions).
Panic(st, why) == [st EXCEPT !.panic = why]

Put(f, k, v) == [x \in DOMAIN f \cup {k} |-> IF x = k THEN v ELSE f[x]]

Drop(f, k) == [x \in DOMAIN f \ {k} |-> f[x]]

create_node(st, t, nm, d) ==
    [st EXCEPT !.nodes = Append(@, NewNode(t, nm, d)), !.ret = Len(st.nodes) + 1]

\* ---------------------------------------------------------- materialization
\* Elem::to_node (459-485) and Rsx::to_node (545-555).  An `on:` attribute
\* borrows CALLBACKS, looks the callback name up, stamps the element with the
\* current RID as its `rid` attribute, inserts the recall entry and increments
\* RID.  The new node is returned in st.ret.
RECURSIVE Elem_to_node(_, _), Rsx_to_node(_, _), to_node_attrs(_, _, _, _),
          to_node_children(_, _, _, _)

\* A materialization that stamps the rid and leaves the counter as it was.
to_node_attrs_same_rid(st, el, attrs, i) ==
    IF st.panic # "" \/ i > Len(attrs) THEN st
    ELSE IF ~starts_with(attrs[i].key, ON_PREFIX)
    THEN to_node_attrs([st EXCEPT !.nodes = set_attribute(@, el, attrs[i].key, attrs[i].value)],
                       el, attrs, i + 1)
    ELSE IF st.cbLock THEN Panic(st, "to_node: CALLBACKS already mutably borrowed")
    ELSE IF ~split_once(attrs[i].value, "[").some \/ split_once(attrs[i].value, "[").a \notin DOMAIN st.callbacks
    THEN Panic(st, "to_node: unknown callback")
    ELSE to_node_attrs(
             [st EXCEPT !.nodes = set_attribute(@, el, K_rid, to_string(st.rid)),
                        !.recalls = Put(@, to_string(st.rid), split_once(attrs[i].value, "[").a)],
             el, attrs, i + 1)

to_node_attrs(st, el, attrs, i) ==
    IF st.panic # "" \/ i > Len(attrs) THEN st
    ELSE LET attr == attrs[i]
         IN  IF ~starts_with(attr.key, ON_PREFIX)
             THEN to_node_attrs(
                      [st EXCEPT !.nodes = set_attribute(@, el, attr.key, attr.value)],
                      el, attrs, i + 1)
             ELSE IF st.cbLock
             THEN Panic(st, "to_node: CALLBACKS already mutably borrowed")
             ELSE LET sp == split_once(attr.value, "[")
                      rs == to_string(st.rid)
                  IN  IF ~sp.some THEN Panic(st, "to_node: no [ in callback")
                      ELSE IF sp.a \notin DOMAIN st.callbacks
                      THEN Panic(st, "to_node: unknown callback")
                      ELSE IF st.rcLock
                      THEN Panic([st EXCEPT !.nodes = set_attribute(@, el, K_rid, rs)],
                                 "RECALLS already borrowed")
                      ELSE to_node_attrs(
                               [st EXCEPT !.nodes = set_attribute(@, el, K_rid, rs),
                                          !.recalls = Put(@, rs, sp.a),
                                          !.rid = @ + 1],
                               el, attrs, i + 1)

\* el.append_child(&child.to_node(document)) (482), s1 the state after
\* child.to_node.
append_new(s1, el) ==
    IF s1.panic # "" THEN s1 ELSE [s1 EXCEPT !.nodes = append_child(@, el, s1.ret)]

to_node_children(st, el, children, i) ==
    IF st.panic # "" \/ i > Len(children) THEN st
    ELSE to_node_children(append_new(Rsx_to_node(st, children[i]), el),
                          el, children, i + 1)

\* The element is returned (484).
return_node(s, el) == IF s.panic # "" THEN s ELSE [s EXCEPT !.ret = el]

\* Elem::to_node after create_element (461-484), s1 the state with the new
\* element in s1.ret.
Elem_fill(s1, elem) ==
    return_node(to_node_children(to_node_attrs(s1, s1.ret, elem.attrs, 1),
                                 s1.ret, elem.children, 1),
                s1.ret)

Elem_to_node(st, elem) == Elem_fill(create_node(st, "element", elem.name, <<>>), elem)

Rsx_to_node(st, rsx) ==
    CASE rsx.t = "Element"   -> Elem_to_node(st, rsx)
      [] rsx.t = "Text"      -> create_node(st, "text", "#text", rsx.text)
      [] rsx.t = "Component" -> Panic(st, "to_node: Component unimplemented")

\* add_sibling (630-636): after() on an element or a text node; any other
\* node type is unimplemented!().
add_sibling(st, node, new) ==
    IF st.nodes[node].type \in {"element", "text"}
    THEN [st EXCEPT !.nodes = after_with_node(@, node, new)]
    ELSE Panic(st, "add_sibling: unimplemented node type")

\* Rsx::edit (530-544): materialize the virtual node and put it right after
\* `node`.
add_new_sibling(s1, node) == IF s1.panic # "" THEN s1 ELSE add_sibling(s1, node, s1.ret)

Rsx_edit(st, rsx, node) ==
    IF rsx.t = "Component" THEN Panic(st, "edit: Component unimplemented")
    ELSE add_new_sibling(Rsx_to_node(st, rsx), node)

\* ------------------------------------------------------------------- diff
\* The attribute phase of Elem::diff (490-503): equal counts, and no virtual
\* attribute whose key the live element carries with another value.
attrs_same(nodes, node, attrs) ==
    /\ Len(attrs) = Len(nodes[node].attrs)
    /\ \A i \in 1..Len(attrs) :
           LET j == get_named_item(nodes, node, attrs[i].key)
           IN  j # 0 => nodes[node].attrs[j].value = attrs[i].value

LevelOf(nodes, n) == IF nodes[n].parent = 0 THEN <<>> ELSE nodes[nodes[n].parent].kids

\* What one call of diff did, for the properties about it.
DiffEvent(st, elem, old, s2) ==
    [elem |-> elem, old |-> old, new |-> s2.node,
     oldAttrs |-> st.nodes[old].attrs, oldAttrsAfter |-> s2.nodes[old].attrs,
     before |-> LevelOf(st.nodes, old), after |-> LevelOf(s2.nodes, s2.node),
     oldName |-> node_name(st.nodes, old),
     fresh |-> Len(st.nodes)]

\* parent.insert_before(&new, Some(&node)); *node = new (508-509), s1 the
\* state after self.to_node.
insert_new(s1, parent, node) ==
    IF s1.panic # "" THEN s1
    ELSE [s1 EXCEPT !.nodes = insert_before(@, parent, s1.ret, node), !.node = s1.ret]

\* A diff that compares the attributes position by position and replaces the
\* node when they differ.
Elem_diff_ordered(st, elem) ==
    LET node == st.node
    IN  IF elem.name = node_name(st.nodes, node) /\ elem.attrs = st.nodes[node].attrs
        THEN st
        ELSE LET parent == parent_node(st.nodes, node)
             IN  IF parent = 0 THEN Panic(st, "diff: no parent")
                 ELSE insert_new(Elem_to_node(st, elem), parent, node)

\* Elem::diff (486-512).  Same tag: nothing is changed, whatever the
\* attributes.  Other tag: the element is materialized, inserted before the
\* addressed node, and the reference is repointed to it.
Elem_diff(st, elem) ==
    LET node == st.node
    IN  IF elem.name = node_name(st.nodes, node)
        THEN IF attrs_same(st.nodes, node, elem.attrs) THEN st ELSE st
        ELSE LET parent == parent_node(st.nodes, node)
             IN  IF parent = 0 THEN Panic(st, "diff: no parent")
                 ELSE insert_new(Elem_to_node(st, elem), parent, node)

\* The diff is recorded, s2 the state after it.
log_diff(st, elem, s2) ==
    IF s2.panic # "" THEN s2
    ELSE [s2 EXCEPT !.log = Append(@, DiffEvent(st, elem, st.node, s2))]

diff(st, elem) == log_diff(st, elem, Elem_diff(st, elem))

\* ------------------------------------------------------- recall retirement
RetireOwn(st, child) ==
    LET j == get_named_item(st.nodes, child, K_rid)
    IN  IF st.nodes[child].type = "element" /\ j # 0
        THEN Drop(st.recalls, st.nodes[child].attrs[j].value)
        ELSE st.recalls

\* A removal that detaches the child and leaves the recall table alone.
remove_recall_keep(st, parent, child) ==
    IF st.nodes[child].parent # parent THEN Panic(st, "remove_child: not a child")
    ELSE [st EXCEPT !.nodes = remove_child(@, parent, child)]

\* remove_recall (872-881): retire the entry named by the child's own `rid`,
\* then detach the child.
remove_recall(st, parent, child) ==
    IF st.nodes[child].parent # parent THEN Panic(st, "remove_child: not a child")
    ELSE [st EXCEPT !.recalls = RetireOwn(st, child),
                    !.nodes = remove_child(@, parent, child)]

\* replace_recall (883-892): retire the entry named by the child's own `rid`,
\* then put `new` in the child's place.
replace_recall(st, parent, child, new) ==
    IF st.nodes[child].parent # parent THEN Panic(st, "replace_child: not a child")
    ELSE [st EXCEPT !.recalls = RetireOwn(st, child),
                    !.nodes = replace_child(@, parent, new, child)]

\* set_content (894-903): a new text node replaces the addressed node.
set_node(s, n) == IF s.panic # "" THEN s ELSE [s EXCEPT !.node = n]

replace_by_new(s1, parent, node) == set_node(replace_recall(s1, parent, node, s1.ret), s1.ret)

set_content(st, content) ==
    IF parent_node(st.nodes, st.node) = 0
    THEN Panic(create_node(st, "text", "#text", content), "set_content: no parent")
    ELSE IF st.rcLock
    THEN Panic(create_node(st, "text", "#text", content), "RECALLS already borrowed")
    ELSE replace_by_new(create_node(st, "text", "#text", content),
                        parent_node(st.nodes, st.node), st.node)

\* ------------------------------------------------------------ reconciliation
IsEndMarker(nodes, n) == nodes[n].type = "comment" /\ nodes[n].data = AV_END

RECURSIVE update(_, _), check_siblings(_, _, _), grow_region(_, _, _),
          grow_tail(_, _, _), grow_rest(_, _, _), shrink_loop(_, _),
          after_update(_, _, _), update_children(_, _)

\* *node = node.next_sibling().unwrap() (829).
advance(s1) ==
    IF s1.panic # "" THEN s1 ELSE [s1 EXCEPT !.node = next_sibling(s1.nodes, s1.node)]

\* check_siblings, 827-830: the next sibling is the end marker; every
\* remaining child is put after `node`, which then advances to it.
grow_region(st, children, j) ==
    IF st.panic # "" \/ j > Len(children) THEN st
    ELSE grow_region(advance(Rsx_edit(st, children[j], st.node)), children, j + 1)

\* check_siblings, 845-848: the remaining children are each put right after
\* the same node.
grow_rest(st, children, j) ==
    IF st.panic # "" \/ j > Len(children) THEN st
    ELSE grow_rest(Rsx_edit(st, children[j], st.node), children, j + 1)

\* check_siblings, 840-851: the loop over the children that follow the one
\* that met the end of the chain.
grow_tail(st, children, j) ==
    IF st.panic # "" \/ j > Len(children) THEN st
    ELSE LET sib == next_sibling(st.nodes, st.node)
         IN  IF sib # 0
             THEN grow_tail(Rsx_edit([st EXCEPT !.node = sib], children[j], sib),
                            children, j + 1)
             ELSE grow_rest(st, children, j)

\* check_siblings, 856-865: every sibling after `node` is retired and removed.
shrink_loop(st, parent) ==
    IF st.panic # "" THEN st
    ELSE LET sib == next_sibling(st.nodes, st.node)
         IN  IF sib = 0 THEN st
             ELSE shrink_loop(remove_recall(st, parent, sib), parent)

\* check_siblings (816-870); n children have been consumed.
\* check_siblings, 824-853: the rest of the loop body for child n + 1, s1
\* the state after update(child, node).
after_update(s1, children, n) ==
    IF s1.panic # "" THEN s1
    ELSE LET child == children[n + 1]
             l     == Len(children)
             sib   == next_sibling(s1.nodes, s1.node)
         IN  IF sib # 0
             THEN IF IsEndMarker(s1.nodes, sib)
                  THEN grow_region(s1, children, n + 2)
                  ELSE check_siblings(IF n < l - 1 THEN [s1 EXCEPT !.node = sib] ELSE s1,
                                      children, n + 1)
             ELSE IF n < l - 1
                  THEN grow_tail(Rsx_edit(s1, child, s1.node), children, n + 2)
                  ELSE s1

check_siblings(st, children, n) ==
    IF st.panic # "" THEN st
    ELSE IF n < Len(children)
    THEN after_update(update(st, children[n + 1]), children, n)
    ELSE IF next_sibling(st.nodes, st.node) # 0
         THEN IF st.rcLock THEN Panic(st, "RECALLS already borrowed")
              ELSE shrink_loop(st, parent_node(st.nodes, st.node))
         ELSE st

\* update (799-814).  The children of an element are reconciled only when
\* the addressed node has a first child, through a local copy of the
\* reference.
\* update, 803-805: the children, s1 the state after element.diff(node).
update_children(s1, rsx) ==
    LET fc == first_child(s1.nodes, s1.node)
    IN  IF s1.panic # "" \/ fc = 0 THEN s1
        ELSE [check_siblings([s1 EXCEPT !.node = fc], rsx.children, 0)
                 EXCEPT !.node = s1.node]

update(st, rsx) ==
    CASE rsx.t = "Element" -> update_children(diff(st, rsx), rsx)
      [] rsx.t = "Text" -> set_content(st, rsx.text)
      [] rsx.t = "Component" -> check_siblings(st, rsx.children, 0)

\* ------------------------------------------------------------------ rerender
\* check_vnodes (672-698): every comment that starts with "av " must carry
\* a:id=<ident>; the map gains ident -> comment node.  Other nodes are
\* searched recursively.  m = [map, panic].
RECURSIVE check_vnodes(_, _, _, _), av_ident(_, _)

\* The loop over attrs[1..]: unwrap of split_once('='), first a:id wins.
av_ident(attrs, i) ==
    IF i > Len(attrs) THEN [found |-> FALSE, panic |-> "expected id for virtual node", v |-> <<>>]
    ELSE LET kv == split_once(attrs[i], "=")
         IN  IF ~kv.some THEN [found |-> FALSE, panic |-> "check_vnodes: no = in attr", v |-> <<>>]
             ELSE IF kv.a = AV_ID_KEY THEN [found |-> TRUE, panic |-> "", v |-> kv.b]
             ELSE av_ident(attrs, i + 1)

check_vnodes(m, nodes, list, i) ==
    IF m.panic # "" \/ i > Len(list) THEN m
    ELSE LET node == list[i]
         IN  IF nodes[node].type = "comment"
             THEN IF starts_with(nodes[node].data, AV_PREFIX)
                  THEN LET r == av_ident(split(nodes[node].data, " "), 2)
                       IN  IF r.found
                           THEN check_vnodes([m EXCEPT !.map = Put(@, r.v, node)],
                                             nodes, list, i + 1)
                           ELSE [m EXCEPT !.panic = r.panic]
                  ELSE check_vnodes(m, nodes, list, i + 1)
             ELSE check_vnodes(check_vnodes(m, nodes, nodes[node].kids, 1),
                               nodes, list, i + 1)

\* close_vnode (905-912): a comment other than "/av" after the patched node
\* gets an end marker through add_sibling, which is unimplemented for a
\* comment.
close_vnode(st) ==
    LET n == next_sibling(st.nodes, st.node)
    IN  IF n # 0 /\ st.nodes[n].type = "comment" /\ st.nodes[n].data # AV_END
        THEN LET s1 == create_node(st, "comment", "#comment", AV_END)
             IN  add_sibling(s1, n, s1.ret)
        ELSE st

\* rerender (708-727): the region of the active node id is looked up and the
\* node after its start marker is patched.  anchor: the node the patch
\* started from.
\* rerender, 723: close_vnode once update has returned.
close_updated(s1) == IF s1.panic # "" THEN s1 ELSE close_vnode(s1)

\* rerender, 716-723, m the outcome of check_vnodes on the body's children.
rerender_region(st, m, rsx) ==
    IF m.panic # "" THEN Panic([st EXCEPT !.vnode_map = m.map], m.panic)
    ELSE IF st.node_id \notin DOMAIN st.contexts
    THEN Panic([st EXCEPT !.vnode_map = m.map], "rerender: no context for NODE_ID")
    ELSE IF st.contexts[st.node_id] \notin DOMAIN m.map
    THEN Panic([st EXCEPT !.vnode_map = m.map], "rerender: no vnode")
    ELSE LET node == next_sibling(st.nodes, m.map[st.contexts[st.node_id]])
         IN  IF node = 0
             THEN Panic([st EXCEPT !.vnode_map = m.map], "rerender: no next sibling")
             ELSE close_updated(update([st EXCEPT !.vnode_map = m.map, !.node = node,
                                                  !.anchor = node], rsx))

rerender(st0, rsx) ==
    rerender_region([st0 EXCEPT !.log = <<>>, !.anchor = 0],
                    check_vnodes([map |-> st0.vnode_map, panic |-> ""], st0.nodes,
                                 st0.nodes[Body].kids, 1),
                    rsx)

\* ------------------------------------------------------- application logic
\* The constructor and the invoker of a callback are functions of the
\* application (fn(String), fn()); what they do is not in this crate.  An
\* execution is recorded in st.trace with the NODE_ID and IDS it can read;
\* the invoker then does nothing more (beh.t = "none") or requests a
\* re-render of a tree (beh.t = "rerender").
NoBehaviour == [t |-> "none", rsx |-> Text(<<>>)]

RerenderBehaviour(rsx) == [t |-> "rerender", rsx |-> rsx]

RunEvent(st, ev, name, via) ==
    [ev |-> ev, name |-> name, via |-> via, node_id |-> st.node_id, ids |-> st.ids]

constructor(st, name, arg) ==
    [st EXCEPT !.trace = Append(@, RunEvent(st, "new", name, "call"))]

invoker(st, name, via, beh) ==
    IF beh.t = "rerender"
    THEN rerender([st EXCEPT !.trace = Append(@, RunEvent(st, "call", name, via))], beh.rsx)
    ELSE [st EXCEPT !.trace = Append(@, RunEvent(st, "call", name, via))]

\* ------------------------------------------------------------ entry points
\* The entry point returns true (738) or Ok(()) (765) once the application
\* code has returned; the borrow of CALLBACKS has ended.
returned(s) ==
    IF s.panic # "" THEN s
    ELSE [s EXCEPT !.cbLock = FALSE, !.rcLock = FALSE, !.result = TRUE]

\* A recall that reports success whether or not the rid is known.
recall_always_true(st, rid, beh) ==
    IF rid \in DOMAIN st.recalls
    THEN returned(invoker([st EXCEPT !.cbLock = FALSE, !.rcLock = FALSE],
                          st.recalls[rid], "recall", beh))
    ELSE [st EXCEPT !.result = TRUE]

\* A recall that keeps its borrow of RECALLS while the invoker runs.
recall_holding(st, rid, beh) ==
    IF rid \in DOMAIN st.recalls
    THEN returned(invoker([st EXCEPT !.cbLock = FALSE, !.rcLock = TRUE],
                          st.recalls[rid], "recall", beh))
    ELSE [st EXCEPT !.result = FALSE]

\* recall (729-742): RECALLS is borrowed for the lookup (733) and the borrow
\* is dropped (736) before the invoker runs.  st.result is the bool returned.
recall(st, rid, beh) ==
    IF rid \in DOMAIN st.recalls
    THEN returned(invoker([st EXCEPT !.cbLock = FALSE, !.rcLock = FALSE],
                          st.recalls[rid], "recall", beh))
    ELSE [st EXCEPT !.result = FALSE]

\* A mount step that never records that the constructor has run.
call_mount_forgetful(st, name, node_id) ==
    IF ~st.callbacks[name].is_mounted
    THEN constructor(st, name, node_id)
    ELSE st

\* The mount step of call (753-758): the constructor runs when the entry is
\* not mounted yet, and the entry is marked mounted.
call_mount(st, name, node_id) ==
    IF ~st.callbacks[name].is_mounted
    THEN [constructor(st, name, node_id) EXCEPT !.callbacks[name].is_mounted = TRUE]
    ELSE st

\* A call that sets the active node id and identifiers before the lookup.
call_sets_first(st, callback, node_id, beh) ==
    LET sp  == split_once(callback, "[")
        rs  == rsplit_once(sp.b, "]")
        arr == split(rs.a, " ")
    IN  IF ~sp.some THEN Panic(st, "call: no [ in descriptor")
        ELSE IF ~rs.some THEN Panic(st, "call: no ] in descriptor")
        ELSE IF sp.a \in DOMAIN st.callbacks
        THEN returned(invoker(call_mount([st EXCEPT !.node_id = node_id, !.ids = arr,
                                                    !.cbLock = TRUE], sp.a, node_id),
                              sp.a, "call", beh))
        ELSE [st EXCEPT !.node_id = node_id, !.ids = arr, !.result = TRUE]

\* call (744-766): the descriptor is split at the first '[' and the last
\* ']', the text between them at every space.  CALLBACKS stays mutably
\* borrowed while the constructor and the invoker run.
call(st, callback, node_id, beh) ==
    LET sp  == split_once(callback, "[")
        rs  == rsplit_once(sp.b, "]")
        arr == split(rs.a, " ")
    IN  IF ~sp.some THEN Panic(st, "call: no [ in descriptor")
        ELSE IF ~rs.some THEN Panic(st, "call: no ] in descriptor")
        ELSE IF sp.a \in DOMAIN st.callbacks
        THEN returned(invoker(call_mount([st EXCEPT !.node_id = node_id, !.ids = arr,
                                                    !.cbLock = TRUE], sp.a, node_id),
                              sp.a, "call", beh))
        ELSE [st EXCEPT !.result = TRUE]

\* ------------------------------------------------------------------- signals
\* SignalProxy (350-388).
SignalProxy_new == [learning |-> FALSE, invalid |-> FALSE, node |-> 0, dirty |-> -1,
                    sub |-> <<0, 0>>]

\* SignalProxy::from (362-364).
SignalProxy_from(sub) == [SignalProxy_new EXCEPT !.sub = sub]

\* Bitwise OR of two signed integers in two's complement: -1 is all ones,
\* the lowest bit is a % 2 and the remaining bits are a \div 2 (rounded
\* down), at any width that holds both.
RECURSIVE BitOr(_, _)
BitOr(a, b) ==
    IF a = 0 THEN b
    ELSE IF b = 0 THEN a
    ELSE IF a = -1 \/ b = -1 THEN -1
    ELSE (IF a % 2 = 1 \/ b % 2 = 1 THEN 1 ELSE 0) + 2 * BitOr(a \div 2, b \div 2)

\* A read that records generation 1 instead of 0 while learning.
SignalProxy_set_gen(p) ==
    IF p.learning THEN [p EXCEPT !.sub = <<p.node, 1>>]
    ELSE LET d == IF p.dirty = -1 THEN 0 ELSE p.dirty
         IN  [p EXCEPT !.dirty = BitOr(d, 1)]

\* SignalProxy::set (365-374).
SignalProxy_set(p) ==
    IF p.learning THEN [p EXCEPT !.sub = <<p.node, 0>>]
    ELSE LET d == IF p.dirty = -1 THEN 0 ELSE p.dirty
         IN  [p EXCEPT !.dirty = BitOr(d, 1)]

\* SignalProxy::start_proxy (375-380): p the proxy after, ret the Sub
\* returned.
SignalProxy_start_proxy(p) ==
    [p |-> [p EXCEPT !.learning = TRUE, !.invalid = FALSE, !.dirty = -1], ret |-> p.sub]

\* SignalProxy::stop_proxy (381-384).
SignalProxy_stop_proxy(p, sub) == [p EXCEPT !.sub = sub, !.learning = FALSE]

\* Signal (308-347): new, value, value_mut.  value_mut hands out &mut T; the
\* write through it is the caller's.
Signal_new(t) == [proxy |-> SignalProxy_new, value |-> t]

Signal_value(sg) == [sg EXCEPT !.proxy = SignalProxy_set(@)]

Signal_value_mut(sg) == [sg EXCEPT !.proxy.invalid = TRUE]

\* Proxy (390-431): new, set, start_proxy, stop_proxy.
Proxy_new(subs) ==
    [learning |-> FALSE, invalid |-> FALSE, node |-> 0, dirty |-> -1, subs |-> subs]

\* A set that records a subscriber whether or not the proxy is learning.
Proxy_set_always(p, n) ==
    [p EXCEPT !.subs = Append(@, <<p.node, n>>),
              !.dirty = IF p.learning THEN @ ELSE BitOr(IF @ = -1 THEN 0 ELSE @, n)]

Proxy_set(p, n) ==
    IF p.learning THEN [p EXCEPT !.subs = Append(@, <<p.node, n>>)]
    ELSE [p EXCEPT !.dirty = BitOr(IF @ = -1 THEN 0 ELSE @, n)]

Proxy_start_proxy(p) ==
    [p |-> [p EXCEPT !.learning = TRUE, !.invalid = FALSE, !.dirty = -1, !.subs = <<>>],
     ret |-> p.subs]

Proxy_stop_proxy(p, subs) == [p EXCEPT !.subs = subs, !.learning = FALSE]

\* Heap objects behind the handles of the object table: a Signal over an
\* ordered shared-child collection (inner: the handles of its elements), or
\* any other natively typed object.
SignalRefVec(proxy, inner) == [type |-> "Signal<RefVec>", proxy |-> proxy, inner |-> inner]

OtherObj == [type |-> "other", proxy |-> SignalProxy_new, inner |-> <<>>]

\* Obj (585-589).
Rs(h) == [kind |-> "Rs", h |-> h]

Js == [kind |-> "Js", h |-> 0]

\* ------------------------------------------------------------ lexical_scope
\* lexical_scope (768-797): one handle per identifier of IDS, in order.
\* "f-s": slot f must hold a Signal over a collection; reading it goes
\* through Signal::value (333-336), which runs SignalProxy::set.
RECURSIVE scope_loop(_, _)

\* A resolution that puts each handle in front of those found so far.
scope_one_prepend(st, id) ==
    LET sp == split_once(id, "-")
        n  == parse_usize(IF sp.some THEN sp.a ELSE id)
        s  == parse_usize(sp.b)
    IN  IF ~n.ok \/ (sp.some /\ ~s.ok) THEN Panic(st, "problem parsing id for lexical scope")
        ELSE IF ~st.app.some THEN Panic(st, "could not get app state")
        ELSE IF n.val >= Len(st.app.objs) THEN Panic(st, "objs: index out of bounds")
        ELSE LET o == st.app.objs[n.val + 1]
             IN  IF o.kind # "Rs" THEN Panic(st, "expected Rust type to be restored")
                 ELSE IF ~sp.some THEN [st EXCEPT !.scope = <<o.h>> \o @]
                 ELSE IF st.heap[o.h].type # "Signal<RefVec>"
                 THEN Panic(st, "problem getting reference for lexical scope")
                 ELSE IF s.val >= Len(st.heap[o.h].inner)
                 THEN Panic(st, "inner: index out of bounds")
                 ELSE [st EXCEPT !.heap[o.h].proxy = SignalProxy_set(@),
                                 !.scope = <<st.heap[o.h].inner[s.val + 1]>> \o @]

scope_one(st, id) ==
    LET sp == split_once(id, "-")
    IN  IF sp.some
        THEN LET f == parse_usize(sp.a)
                 s == parse_usize(sp.b)
             IN  IF ~f.ok THEN Panic(st, "problem parsing id for lexical scope")
                 ELSE IF ~s.ok THEN Panic(st, "problem parsing index for lexical scope")
                 ELSE IF ~st.app.some THEN Panic(st, "could not get app state")
                 ELSE IF f.val >= Len(st.app.objs) THEN Panic(st, "objs: index out of bounds")
                 ELSE LET o == st.app.objs[f.val + 1]
                      IN  IF o.kind # "Rs" THEN Panic(st, "expected Rust type to be restored")
                          ELSE IF st.heap[o.h].type # "Signal<RefVec>"
                          THEN Panic(st, "problem getting reference for lexical scope")
                          ELSE LET s1 == [st EXCEPT !.heap[o.h].proxy = SignalProxy_set(@)]
                               IN  IF s.val >= Len(s1.heap[o.h].inner)
                                   THEN Panic(s1, "inner: index out of bounds")
                                   ELSE [s1 EXCEPT !.scope = Append(@, s1.heap[o.h].inner[s.val + 1])]
        ELSE LET n == parse_usize(id)
             IN  IF ~n.ok THEN Panic(st, "problem parsing id for lexical scope")
                 ELSE IF ~st.app.some THEN Panic(st, "could not get app state")
                 ELSE IF n.val >= Len(st.app.objs) THEN Panic(st, "objs: index out of bounds")
                 ELSE LET o == st.app.objs[n.val + 1]
                      IN  IF o.kind # "Rs" THEN Panic(st, "expected Rust type to be restored")
                          ELSE [st EXCEPT !.scope = Append(@, o.h)]

scope_loop(st, i) ==
    IF st.panic # "" \/ i > Len(st.ids) THEN st
    ELSE scope_loop(scope_one(st, st.ids[i]), i + 1)

lexical_scope(st) == scope_loop([st EXCEPT !.scope = <<>>], 1)

\* ------------------------------------------------------------------- inputs
S_a == <<"a">>
S_b == <<"b">>
S_x == <<"x">>
S_y == <<"y">>
K_id == <<"i", "d">>
N_f == <<"f">>
N_g == <<"g">>
NID_7 == <<"7">>
NID_8 == <<"8">>
D_f_empty == <<"f", "[", "]">>
D_f_0     == <<"f", "[", "0", "]">>
D_g_two   == <<"g", "[", "0", " ", "1", "-", "1", "]">>
D_g_js    == <<"g", "[", "2", "]">>
D_h_0     == <<"h", "[", "0", "]">>
D_bad     == <<"f">>

\* Descriptors the host passes to call: no argument, one, a plain and a
\* collection identifier, a slot that was not restored, an unregistered
\* name, and a descriptor without brackets.
Descriptors == {D_f_empty, D_f_0, D_g_two, D_g_js, D_h_0, D_bad}

\* Node ids the host passes to call; only the first has a context.
NodeIds == {NID_7, NID_8}

\* Strings the host passes to recall.
RidArgs == {<<"0">>, <<"1">>, <<"0", "0">>}

\* The server-rendered documents the runtime starts on (node 1 is the body):
\* a region with one element, a region with three siblings, an element with
\* a plain tail of children and no end marker, and an empty region.
DocNode(t, nm, d, attrs, kids, parent) ==
    [type |-> t, name |-> nm, data |-> d, attrs |-> attrs, kids |-> kids, parent |-> parent]

Doc1 == << DocNode("element", "body", <<>>, <<>>, <<2, 3, 5, 6>>, 0),
           DocNode("comment", "#comment", AV_0, <<>>, <<>>, 1),
           DocNode("element", "div", <<>>,
                   <<Attribute(K_cls, S_a), Attribute(K_id, S_b)>>, <<4>>, 1),
           DocNode("text", "#text", S_x, <<>>, <<>>, 3),
           DocNode("comment", "#comment", AV_END, <<>>, <<>>, 1),
           DocNode("element", "span", <<>>, <<>>, <<>>, 1) >>

Doc2 == << DocNode("element", "body", <<>>, <<>>, <<2, 3, 4, 5, 6>>, 0),
           DocNode("comment", "#comment", AV_0, <<>>, <<>>, 1),
           DocNode("element", "div", <<>>, <<>>, <<>>, 1),
           DocNode("element", "span", <<>>, <<>>, <<>>, 1),
           DocNode("text", "#text", S_x, <<>>, <<>>, 1),
           DocNode("comment", "#comment", AV_END, <<>>, <<>>, 1) >>

Doc3 == << DocNode("element", "body", <<>>, <<>>, <<2, 3>>, 0),
           DocNode("comment", "#comment", AV_0, <<>>, <<>>, 1),
           DocNode("element", "div", <<>>, <<>>, <<4>>, 1),
           DocNode("element", "span", <<>>, <<>>, <<>>, 3) >>

Doc4 == << DocNode("element", "body", <<>>, <<>>, <<2, 3, 4>>, 0),
           DocNode("comment", "#comment", AV_0, <<>>, <<>>, 1),
           DocNode("comment", "#comment", AV_END, <<>>, <<>>, 1),
           DocNode("element", "span", <<>>, <<>>, <<>>, 1) >>

InitialDocs == {Doc1, Doc2, Doc3, Doc4}

\* Virtual trees the application renders.
V_div      == Element("div", <<>>, <<>>)
V_span     == Element("span", <<>>, <<>>)
V_div_ab   == Element("div", <<Attribute(K_id, S_b), Attribute(K_cls, S_a)>>, <<Text(S_x)>>)
V_btn      == Element("span", <<Attribute(K_on, D_f_0)>>, <<>>)
V_div_btn  == Element("div", <<>>, <<V_btn>>)
V_span_btn == Element("span", <<>>, <<Element("div", <<Attribute(K_on, D_g_two)>>, <<>>)>>)

R_same   == Component(<<V_div_ab>>)
R_two    == Component(<<V_div, V_span>>)
R_other  == Component(<<V_span>>)
R_text   == Component(<<Text(S_y)>>)
R_grow   == Component(<<V_div_btn, Text(S_x), V_span>>)
R_nested == Component(<<V_span_btn>>)
R_spans  == Component(<<V_span, V_span>>)
R_empty  == Component(<<>>)
R_elem   == Element("div", <<Attribute(K_cls, S_a), Attribute(K_id, S_b)>>,
                    <<V_span, V_span, V_span>>)
R_root   == Element("span", <<Attribute(K_on, D_f_0)>>, <<Text(S_y)>>)
R_btns   == Component(<<V_div, V_btn>>)

Trees == {R_same, R_two, R_other, R_text, R_grow, R_nested, R_spans, R_empty, R_elem,
          R_root, R_btns}

\* What an invoker may do.
Behaviours == {NoBehaviour, RerenderBehaviour(R_nested)}

\* The callback table the application passes to setup: f and g, not mounted.
CallbackData == [is_mounted |-> FALSE]

AppCallbacks == [n \in {N_f, N_g} |-> CallbackData]

\* The hydrated application: CONTEXTS maps node id 7 to region 0; object
\* table slot 0 holds a plain object, slot 1 a signal over a collection of
\* two elements, slot 2 a value that was not restored.
AppContexts == [n \in {NID_7} |-> <<"0">>]

AppObjs == <<Rs(1), Rs(2), Js>>

AppHeap == <<OtherObj, SignalRefVec(SignalProxy_new, <<3, 4>>), OtherObj, OtherObj>>

\* -------------------------------------------------------------------- state
\* nodes .. heap: the program state (see the state record above).
\* phase: "new", "hydrated", "ready".  panicked: "" or why the last entry
\* point aborted.  ops: entry points invoked.  runs: per callback name, how
\* often call named it and how often its constructor and its invoker were
\* executed through call.  last: the last entry point, its arguments, what
\* it returned and the program state it started from.
\* signal, proxy, store, vec: a Signal, a Proxy, an AppState and an ordered
\* shared-child collection exercised on their own, outside the entry points;
\* hist: what was done to them.
VARIABLES nodes, recalls, rid, callbacks, node_id, ids, contexts, vnode_map, app, heap,
          phase, panicked, ops, runs, last,
          signal, proxy, store, vec, hist

progvars == <<nodes, recalls, rid, callbacks, node_id, ids, contexts, vnode_map, app, heap,
              phase, panicked, ops, runs, last>>

libvars == <<signal, proxy, store, vec, hist>>

vars == <<progvars, libvars>>

Program ==
    [nodes |-> nodes, recalls |-> recalls, rid |-> rid, callbacks |-> callbacks,
     node_id |-> node_id, ids |-> ids, contexts |-> contexts, vnode_map |-> vnode_map,
     app |-> app, heap |-> heap]

State ==
    [nodes |-> nodes, recalls |-> recalls, rid |-> rid, callbacks |-> callbacks,
     node_id |-> node_id, ids |-> ids, contexts |-> contexts, vnode_map |-> vnode_map,
     app |-> app, heap |-> heap,
     node |-> 0, ret |-> 0, anchor |-> 0, cbLock |-> FALSE, rcLock |-> FALSE,
     panic |-> "",
     log |-> <<>>, trace |-> <<>>, result |-> FALSE, scope |-> <<>>]

NoLast ==
    [op |-> "none", desc |-> <<>>, nid |-> <<>>, rid |-> <<>>, rsx |-> Text(<<>>),
     beh |-> NoBehaviour, name |-> <<>>, result |-> FALSE, scope |-> <<>>,
     trace |-> <<>>, log |-> <<>>, anchor |-> 0, node |-> 0, pre |-> <<>>]

CountRuns(trace, ev, name) ==
    Cardinality({i \in 1..Len(trace) :
                    trace[i].ev = ev /\ trace[i].name = name /\ trace[i].via = "call"})

\* The name call looks up, when the descriptor has both brackets.
CalledName(l) ==
    LET sp == split_once(l.desc, "[")
    IN  IF l.op = "call" /\ sp.some /\ rsplit_once(sp.b, "]").some THEN sp.a ELSE <<"?">>

Commit(s, l0) ==
    LET l == [l0 EXCEPT !.result = s.result, !.scope = s.scope, !.trace = s.trace,
                        !.log = s.log, !.anchor = s.anchor, !.node = s.node,
                        !.pre = Program]
    IN  /\ nodes' = s.nodes
        /\ recalls' = s.recalls
        /\ rid' = s.rid
        /\ callbacks' = s.callbacks
        /\ node_id' = s.node_id
        /\ ids' = s.ids
        /\ contexts' = s.contexts
        /\ vnode_map' = s.vnode_map
        /\ app' = s.app
        /\ heap' = s.heap
        /\ panicked' = s.panic
        /\ ops' = ops + 1
        /\ runs' = [n \in DOMAIN runs |->
                       [calls |-> runs[n].calls + (IF CalledName(l) = n THEN 1 ELSE 0),
                        news  |-> runs[n].news + CountRuns(s.trace, "new", n),
                        invs  |-> runs[n].invs + CountRuns(s.trace, "call", n)]]
        /\ last' = l
        /\ UNCHANGED <<phase, libvars>>

NoHist == [op |-> "none", steps |-> 0]

\* The library objects as constructed and not used.
InitLib ==
    /\ signal = Signal_new(0)
    /\ proxy = Proxy_new(<<>>)
    /\ store = [objs |-> <<>>, subs |-> <<>>]
    /\ vec = <<>>
    /\ hist = NoHist

InitProgram ==
    /\ nodes \in InitialDocs
    /\ recalls = <<>>
    /\ rid = 0
    /\ callbacks = <<>>
    /\ node_id = <<>>
    /\ ids = <<>>
    /\ contexts = <<>>
    /\ vnode_map = <<>>
    /\ app = [some |-> FALSE, objs |-> <<>>]
    /\ heap = <<>>
    /\ phase = "new"
    /\ panicked = ""
    /\ ops = 0
    /\ runs = <<>>
    /\ last = NoLast

Init == InitProgram /\ InitLib

\* Boot, first half: the application state and the context map are restored
\* from the payload (the restored objects are those of AppObjs).
Hydrate ==
    /\ phase = "new"
    /\ phase' = "hydrated"
    /\ app' = [some |-> TRUE, objs |-> AppObjs]
    /\ heap' = AppHeap
    /\ contexts' = AppContexts
    /\ UNCHANGED <<nodes, recalls, rid, callbacks, node_id, ids, vnode_map, panicked, ops,
                   runs, last, libvars>>

\* setup (700-706): the callback table is installed.
setup(st, cbs) == [st EXCEPT !.callbacks = cbs]

Setup ==
    /\ phase = "hydrated"
    /\ phase' = "ready"
    /\ callbacks' = setup(State, AppCallbacks).callbacks
    /\ runs' = [n \in DOMAIN AppCallbacks |-> [calls |-> 0, news |-> 0, invs |-> 0]]
    /\ last' = [NoLast EXCEPT !.op = "setup"]
    /\ UNCHANGED <<nodes, recalls, rid, node_id, ids, contexts, vnode_map, app, heap,
                   panicked, ops, libvars>>

Ready == phase = "ready" /\ panicked = "" /\ ops < MaxOps

Call(d, n, b) ==
    /\ Ready
    /\ Commit(call(State, d, n, b),
              [NoLast EXCEPT !.op = "call", !.desc = d, !.nid = n, !.beh = b])

Recall(r, b) ==
    /\ Ready
    /\ Commit(recall(State, r, b), [NoLast EXCEPT !.op = "recall", !.rid = r, !.beh = b])

Rerender(t) ==
    /\ Ready
    /\ Commit(rerender(State, t), [NoLast EXCEPT !.op = "rerender", !.rsx = t])

LexicalScope ==
    /\ Ready
    /\ Commit(lexical_scope(State), [NoLast EXCEPT !.op = "lexical_scope"])

Next ==
    \/ Hydrate
    \/ Setup
    \/ \E d \in Descriptors, n \in NodeIds, b \in Behaviours : Call(d, n, b)
    \/ \E r \in RidArgs, b \in Behaviours : Recall(r, b)
    \/ \E t \in Trees : Rerender(t)
    \/ LexicalScope

Spec == Init /\ [][Next]_vars

\* ============================================================== properties
\* A re-render that ran to completion as the last entry point.
Rerendered == last.op = "rerender" /\ panicked = "" /\ last.anchor # 0

\* The start marker of the region the last re-render patched: the node
\* before the anchor in the document it started from.
RegionMarker ==
    LET ks == LevelOf(last.pre.nodes, last.anchor)
    IN  ks[IndexIn(ks, last.anchor) - 1]

\* The siblings after node m, up to the first end marker or the end.
RECURSIVE UpToEnd(_, _, _)
UpToEnd(ns, ks, i) ==
    IF i > Len(ks) \/ IsEndMarker(ns, ks[i]) THEN <<>>
    ELSE <<ks[i]>> \o UpToEnd(ns, ks, i + 1)

RegionChain(ns, m) ==
    LET ks == LevelOf(ns, m) IN UpToEnd(ns, ks, IndexIn(ks, m) + 1)

\* The siblings after the region's content: the end marker and what follows.
RegionRest(ns, m) ==
    LET ks == LevelOf(ns, m)
    IN  SubSeq(ks, IndexIn(ks, m) + 1 + Len(RegionChain(ns, m)), Len(ks))

\* A live node matches a virtual node: an element with the tag and children
\* that match the virtual children one by one, or a text with the content.
RECURSIVE MatchNode(_, _, _)
MatchNode(ns, n, v) ==
    CASE v.t = "Element" ->
             /\ ns[n].type = "element"
             /\ ns[n].name = v.name
             /\ Len(ns[n].kids) = Len(v.children)
             /\ \A i \in 1..Len(v.children) : MatchNode(ns, ns[n].kids[i], v.children[i])
      [] v.t = "Text" -> ns[n].type = "text" /\ ns[n].data = v.text
      [] OTHER -> FALSE

MatchList(ns, chain, vs) ==
    /\ Len(chain) = Len(vs)
    /\ \A i \in 1..Len(vs) : MatchNode(ns, chain[i], vs[i])

\* C1: after a re-render has finished, the live nodes from the anchor
\* position on match the virtual tree: as many nodes, in order, every
\* element with the virtual tag, every text with the virtual content, and
\* the same for the children of every element.
C1_ReconcileMatches ==
    Rerendered =>
        LET chain == RegionChain(nodes, RegionMarker)
        IN  IF last.rsx.t = "Component"
            THEN MatchList(nodes, chain, last.rsx.children)
            ELSE chain # <<>> /\ MatchNode(nodes, chain[1], last.rsx)

\* C2: every key of the recall table is the rid attribute of an element
\* that is attached to the document.
Owns(ns, n, k) ==
    /\ ns[n].type = "element"
    /\ get_named_item(ns, n, K_rid) # 0
    /\ ns[n].attrs[get_named_item(ns, n, K_rid)].value = k

C2_NoStaleRecall ==
    panicked = "" =>
        \A k \in DOMAIN recalls :
            \E n \in 1..Len(nodes) : Owns(nodes, n, k) /\ Attached(nodes, n)

\* C3: recall(rid) with rid a key of the recall table executes the invoker
\* of that entry exactly once and returns true; with any other rid it
\* executes nothing, returns false and changes no program state.
C3_Recall ==
    last.op = "recall" =>
        IF last.rid \in DOMAIN last.pre.recalls
        THEN /\ Len(last.trace) = 1
             /\ last.trace[1].ev = "call"
             /\ last.trace[1].name = last.pre.recalls[last.rid]
             /\ panicked = "" => last.result = TRUE
        ELSE /\ last.trace = <<>>
             /\ last.result = FALSE
             /\ panicked = ""
             /\ Program = last.pre

C3_Witness ==
    /\ last.op = "recall"
    /\ last.rid \in DOMAIN last.pre.recalls
    /\ last.result = TRUE
    /\ Len(last.trace) = 1

\* The descriptor has the form name[...]: an opening bracket, and a closing
\* bracket as its last character.
WellFormed(d) == (\E i \in 1..Len(d) : d[i] = "[") /\ d[Len(d)] = "]"

NameOf(d) == SubSeq(d, 1, (CHOOSE i \in 1..Len(d) : d[i] = "[" /\ \A j \in 1..(i - 1) : d[j] # "[") - 1)

\* C4: call with a well-formed descriptor whose name is not in the callback
\* table runs no constructor and no invoker, leaves the active node id, the
\* active identifiers and every mounted flag as they were, and succeeds.
C4_UnknownName ==
    (last.op = "call" /\ WellFormed(last.desc) /\ NameOf(last.desc) \notin DOMAIN last.pre.callbacks)
        => /\ last.trace = <<>>
           /\ node_id = last.pre.node_id
           /\ ids = last.pre.ids
           /\ callbacks = last.pre.callbacks
           /\ panicked = ""
           /\ last.result = TRUE

\* The unknown name arrives after a call that set the node id and the ids.
C4_Witness ==
    /\ last.op = "call"
    /\ last.desc = D_h_0
    /\ last.nid = NID_8
    /\ node_id = NID_7
    /\ ids # <<>>
    /\ last.result = TRUE

\* C5: the constructor of a registered name is executed exactly once, in
\* the first call for the name and before that call's invoker; the invoker
\* is executed once per call for the name; a mounted flag stays true.
C5_Counts ==
    \A n \in DOMAIN runs :
        /\ runs[n].invs = runs[n].calls
        /\ runs[n].news = IF runs[n].calls > 0 THEN 1 ELSE 0
        /\ callbacks[n].is_mounted = (runs[n].calls > 0)

C5_Order ==
    (last.op = "call" /\ last.trace # <<>>) =>
        LET n == NameOf(last.desc)
        IN  IF runs[n].calls = 1
            THEN /\ Len(last.trace) = 2
                 /\ last.trace[1].ev = "new" /\ last.trace[1].name = n
                 /\ last.trace[2].ev = "call" /\ last.trace[2].name = n
            ELSE /\ Len(last.trace) = 1
                 /\ last.trace[1].ev = "call" /\ last.trace[1].name = n

C5_StaysMounted ==
    \A n \in DOMAIN callbacks :
        (n \in DOMAIN callbacks' /\ callbacks[n].is_mounted) => callbacks'[n].is_mounted

C5_MountOnce == [](C5_Counts /\ C5_Order) /\ [][C5_StaysMounted]_vars

\* Two calls for one name have been made.
C5_Witness == \E n \in DOMAIN runs : runs[n].calls = 2 /\ runs[n].news = 1 /\ runs[n].invs = 2

\* The identifiers a1 .. ak written between the brackets of name[a1 .. ak],
\* separated by single spaces; none when nothing is written.
RECURSIVE Pieces(_)
Pieces(s) ==
    IF \A i \in 1..Len(s) : s[i] # " " THEN <<s>>
    ELSE LET i == CHOOSE i \in 1..Len(s) : s[i] = " " /\ \A j \in 1..(i - 1) : s[j] # " "
         IN  <<SubSeq(s, 1, i - 1)>> \o Pieces(SubSeq(s, i + 1, Len(s)))

ArgsOf(d) ==
    LET inside == SubSeq(d, Len(NameOf(d)) + 2, Len(d) - 1)
    IN  IF inside = <<>> THEN <<>> ELSE Pieces(inside)

InvokerRuns(trace) == {i \in 1..Len(trace) : trace[i].ev = "call"}

\* C6: for a descriptor name[a1 .. ak], k >= 0, with a registered name, the
\* invoker runs with the active node id equal to the nodeId argument and the
\* active identifiers exactly a1 .. ak in order (none when k = 0).
C6_DescriptorArgs ==
    (/\ last.op = "call"
     /\ panicked = ""
     /\ WellFormed(last.desc)
     /\ NameOf(last.desc) \in DOMAIN last.pre.callbacks)
        => /\ InvokerRuns(last.trace) # {}
           /\ \A i \in InvokerRuns(last.trace) :
                  /\ last.trace[i].node_id = last.nid
                  /\ last.trace[i].ids = ArgsOf(last.desc)

\* The handles of the object table and of the collections, read from the
\* state lexical_scope started from.
SlotHandle(i) == last.pre.app.objs[i + 1].h

ElementHandle(f, s) == last.pre.heap[SlotHandle(f)].inner[s + 1]

MaxIndex == 9

\* C7: lexical_scope returns one handle per active identifier, in order:
\* for "i" the object of slot i, for "f-s" the element at position s of the
\* collection of slot f.
C7_LexicalScope ==
    (last.op = "lexical_scope" /\ panicked = "") =>
        /\ Len(last.scope) = Len(last.pre.ids)
        /\ \A k \in 1..Len(last.pre.ids) :
               /\ \A i \in 0..MaxIndex :
                      last.pre.ids[k] = to_string(i) => last.scope[k] = SlotHandle(i)
               /\ \A f, s \in 0..MaxIndex :
                      last.pre.ids[k] = to_string(f) \o <<"-">> \o to_string(s)
                          => last.scope[k] = ElementHandle(f, s)

\* A plain and a collection identifier have been resolved to two handles.
C7_Witness ==
    /\ last.op = "lexical_scope"
    /\ panicked = ""
    /\ last.pre.ids = <<<<"0">>, <<"1", "-", "1">>>>
    /\ last.scope = <<1, 4>>

\* The attributes as a set of (key, value) pairs.
AttrSet(as) == {as[i] : i \in 1..Len(as)}

NoOpCase(e) == e.elem.name = e.oldName /\ AttrSet(e.elem.attrs) = AttrSet(e.oldAttrs)

\* C8: diff of a virtual element against a live element with the same tag
\* and the same attribute set leaves the reference on the same node, inserts
\* no node at that level and leaves the node's attributes unchanged.
C8_NoOpDiff ==
    \A i \in 1..Len(last.log) :
        LET e == last.log[i]
        IN  NoOpCase(e) =>
                /\ e.new = e.old
                /\ e.after = e.before
                /\ e.oldAttrsAfter = e.oldAttrs

\* The same two attributes, in another order.
C8_Witness ==
    /\ panicked = ""
    /\ \E i \in 1..Len(last.log) :
           /\ NoOpCase(last.log[i])
           /\ Len(last.log[i].oldAttrs) = 2
           /\ last.log[i].elem.attrs # last.log[i].oldAttrs
           /\ last.log[i].new = last.log[i].old

RidOf(ns, n) ==
    IF get_named_item(ns, n, K_rid) = 0 THEN <<>>
    ELSE ns[n].attrs[get_named_item(ns, n, K_rid)].value

\* C9: when diff meets a live node with another tag, a new node with the
\* virtual tag is inserted immediately before the old node and the reference
\* is repointed to it; when the re-render has finished the old node is not
\* the addressed node and the recall entry it owned is retired.
C9_TagMismatchReplace ==
    Rerendered =>
        \A i \in 1..Len(last.log) :
            LET e == last.log[i]
            IN  e.elem.name # e.oldName =>
                    /\ e.new > e.fresh
                    /\ nodes[e.new].name = e.elem.name
                    /\ e.after = InsertAt(e.before, IndexIn(e.before, e.old), e.new)
                    /\ last.node # e.old
                    /\ RidOf(nodes, e.old) \notin DOMAIN recalls

\* C10: m virtual children against a region of k >= 1 siblings followed by
\* the end marker, m > k: the region ends with m nodes, the last m - k are
\* new nodes that match the virtual children k+1 .. m in order, the marker
\* and what follows it stay, and a sibling whose tag is that of its virtual
\* child stays the same node.
C10_RegionGrowth ==
    LET m    == Len(last.rsx.children)
        pre  == RegionChain(last.pre.nodes, RegionMarker)
        k    == Len(pre)
        post == RegionChain(nodes, RegionMarker)
        rest == RegionRest(last.pre.nodes, RegionMarker)
    IN  (/\ Rerendered
         /\ last.rsx.t = "Component"
         /\ k >= 1
         /\ rest # <<>>
         /\ m > k)
        => /\ Len(post) = m
           /\ \A i \in (k + 1)..m :
                  post[i] > Len(last.pre.nodes) /\ MatchNode(nodes, post[i], last.rsx.children[i])
           /\ RegionRest(nodes, RegionMarker) = rest
           /\ \A i \in 1..k :
                  last.pre.nodes[pre[i]].name = last.rsx.children[i].name => post[i] = pre[i]

\* C11: m virtual children against a plain tail of k >= 1 siblings (no end
\* marker, the k-th is the last sibling), m > k: the chain ends with exactly
\* m nodes, the last m - k are new nodes that match the virtual children
\* k+1 .. m in order.
C11_TailGrowth ==
    LET m    == Len(last.rsx.children)
        pre  == RegionChain(last.pre.nodes, RegionMarker)
        k    == Len(pre)
        post == RegionChain(nodes, RegionMarker)
    IN  (/\ Rerendered
         /\ last.rsx.t = "Component"
         /\ k >= 1
         /\ RegionRest(last.pre.nodes, RegionMarker) = <<>>
         /\ m > k)
        => /\ Len(post) = m
           /\ RegionRest(nodes, RegionMarker) = <<>>
           /\ \A i \in (k + 1)..m :
                  post[i] > Len(last.pre.nodes) /\ MatchNode(nodes, post[i], last.rsx.children[i])

\* C19: a re-render inside a region that is closed by the end marker leaves
\* the end marker after the region's content and leaves every node after
\* the end marker where it was.
C19_RegionBoundary ==
    (Rerendered /\ RegionRest(last.pre.nodes, RegionMarker) # <<>>)
        => /\ RegionRest(nodes, RegionMarker) = RegionRest(last.pre.nodes, RegionMarker)
           /\ \A i \in 1..Len(RegionRest(nodes, RegionMarker)) :
                  nodes[RegionRest(nodes, RegionMarker)[i]]
                      = last.pre.nodes[RegionRest(nodes, RegionMarker)[i]]

\* The reasons an entry point aborts on a RefCell that is already borrowed.
BorrowConflicts ==
    {"to_node: CALLBACKS already mutably borrowed", "RECALLS already borrowed"}

\* C17: a call for a registered name whose invoker requests a re-render runs
\* to completion without a borrow conflict on the callback registry, also
\* when the new tree materializes an element with an on: attribute.
C17_CallMayRerender ==
    (/\ last.op = "call"
     /\ last.beh.t = "rerender"
     /\ WellFormed(last.desc)
     /\ NameOf(last.desc) \in DOMAIN last.pre.callbacks)
        => panicked \notin BorrowConflicts

\* The case of C12: a re-render of m >= 1 virtual children against a chain
\* of exactly k > m siblings that runs to the end of the parent.
ShrinkCase ==
    /\ Rerendered
    /\ last.rsx.t = "Component"
    /\ Len(last.rsx.children) >= 1
    /\ Len(RegionChain(last.pre.nodes, RegionMarker)) > Len(last.rsx.children)
    /\ RegionRest(last.pre.nodes, RegionMarker) = <<>>

\* The first m siblings are elements that carry the tags of the m virtual
\* children.
TagsAgree ==
    \A i \in 1..Len(last.rsx.children) :
        /\ last.rsx.children[i].t = "Element"
        /\ last.pre.nodes[RegionChain(last.pre.nodes, RegionMarker)[i]].type = "element"
        /\ last.pre.nodes[RegionChain(last.pre.nodes, RegionMarker)[i]].name
               = last.rsx.children[i].name

\* The outcome of C12: the chain is the first m siblings it had, and every
\* sibling that is gone is detached, its own rid no key of the recall table.
ShrinkOutcome ==
    LET m   == Len(last.rsx.children)
        pre == RegionChain(last.pre.nodes, RegionMarker)
    IN  /\ RegionChain(nodes, RegionMarker) = SubSeq(pre, 1, m)
        /\ RegionRest(nodes, RegionMarker) = <<>>
        /\ \A i \in (m + 1)..Len(pre) :
               /\ ~Attached(nodes, pre[i])
               /\ RidOf(last.pre.nodes, pre[i]) \notin DOMAIN recalls

C18_RecallMayRerender ==
    (last.op = "recall" /\ last.rid \in DOMAIN last.pre.recalls)
        => /\ panicked \notin BorrowConflicts
           /\ panicked = "" => last.result = TRUE

\* A recall whose invoker re-rendered: the entry of rid is retired and a new
\* entry is there.
C18_Witness ==
    /\ last.op = "recall"
    /\ last.beh.t = "rerender"
    /\ panicked = ""
    /\ last.result = TRUE
    /\ last.rid \in DOMAIN last.pre.recalls
    /\ last.rid \notin DOMAIN recalls
    /\ DOMAIN recalls \ DOMAIN last.pre.recalls # {}

\* ------------------------------------------------- signals on their own
\* A Signal and a Proxy driven through their public operations.  The owning
\* node id (_node, a public field) is the one the generated code assigned
\* after construction.  hist: op (the last operation), steps, pre (signal and
\* proxy before it), ret and retP (what the last start_proxy returned), reads
\* (Signal::value reads in the current learning pass), round (the last pass
\* was start_proxy, at least one read, stop_proxy with the collected
\* subscriber), acc and cnt (the OR over 0 and the number of the flags given
\* to Proxy::set since the proxy was clean), inst and instP (the subscribers
\* installed by the last stop_proxy, while no start_proxy followed).
MaxSteps == 4

OwningNodes == {0, 7}

Sub_3_1 == <<3, 1>>

Flags == {-1, 1, 2}

NoSub == [some |-> FALSE, subs |-> <<>>]

InitSignal ==
    /\ InitProgram
    /\ nodes = Doc1
    /\ \E v \in OwningNodes, p \in {SignalProxy_new, SignalProxy_from(Sub_3_1)} :
           /\ signal = [proxy |-> [p EXCEPT !.node = v], value |-> 0]
           /\ proxy = [Proxy_new(<<p.sub>>) EXCEPT !.node = v]
    /\ store = [objs |-> <<>>, subs |-> <<>>]
    /\ vec = <<>>
    /\ hist = [op |-> "none", steps |-> 0, pre |-> [signal |-> signal, proxy |-> proxy],
               ret |-> <<0, 0>>, retP |-> <<>>, reads |-> 0, round |-> FALSE,
               acc |-> 0, cnt |-> 0, inst |-> NoSub, instP |-> NoSub]

Did(h, op) ==
    /\ hist.steps < MaxSteps
    /\ hist' = [h EXCEPT !.op = op, !.steps = hist.steps + 1,
                         !.pre = [signal |-> signal, proxy |-> proxy]]
    /\ UNCHANGED <<progvars, store, vec>>

StartProxy ==
    /\ signal' = [signal EXCEPT !.proxy = SignalProxy_start_proxy(@).p]
    /\ Did([hist EXCEPT !.ret = SignalProxy_start_proxy(signal.proxy).ret, !.reads = 0,
                        !.round = FALSE, !.inst = NoSub], "start_proxy")
    /\ UNCHANGED proxy

Value ==
    /\ signal' = Signal_value(signal)
    /\ Did([hist EXCEPT !.reads = IF signal.proxy.learning THEN @ + 1 ELSE @], "value")
    /\ UNCHANGED proxy

ValueMut ==
    /\ signal' = [Signal_value_mut(signal) EXCEPT !.value = 1 - @]
    /\ Did(hist, "value_mut")
    /\ UNCHANGED proxy

\* stop_proxy with the subscriber collected in the pass (the slot as the
\* reads left it), with the one start_proxy returned, or with another.
StopArg(a) ==
    CASE a = "collected" -> signal.proxy.sub
      [] a = "returned" -> hist.ret
      [] OTHER -> Sub_3_1

StopProxy(a) ==
    /\ signal' = [signal EXCEPT !.proxy = SignalProxy_stop_proxy(@, StopArg(a))]
    /\ Did([hist EXCEPT !.round = signal.proxy.learning /\ hist.reads >= 1 /\ a = "collected",
                        !.inst = [some |-> TRUE, subs |-> StopArg(a)]], "stop_proxy")
    /\ UNCHANGED proxy

ProxyStart ==
    /\ proxy' = Proxy_start_proxy(proxy).p
    /\ Did([hist EXCEPT !.retP = Proxy_start_proxy(proxy).ret, !.acc = 0, !.cnt = 0,
                        !.instP = NoSub], "Proxy.start_proxy")
    /\ UNCHANGED signal

ProxySet(n) ==
    /\ proxy' = Proxy_set(proxy, n)
    /\ Did([hist EXCEPT !.acc = IF proxy.learning THEN @ ELSE BitOr(@, n),
                        !.cnt = IF proxy.learning THEN @ ELSE @ + 1], "Proxy.set")
    /\ UNCHANGED signal

ProxyStopArg(a) == IF a = "collected" THEN proxy.subs ELSE hist.retP

ProxyStop(a) ==
    /\ proxy' = Proxy_stop_proxy(proxy, ProxyStopArg(a))
    /\ Did([hist EXCEPT !.instP = [some |-> TRUE, subs |-> ProxyStopArg(a)]],
           "Proxy.stop_proxy")
    /\ UNCHANGED signal

NextSignal ==
    \/ StartProxy
    \/ Value
    \/ ValueMut
    \/ \E a \in {"collected", "returned", "other"} : StopProxy(a)
    \/ ProxyStart
    \/ \E n \in Flags : ProxySet(n)
    \/ \E a \in {"collected", "returned"} : ProxyStop(a)

SpecSignal == InitSignal /\ [][NextSignal]_vars

\* C13: a learning pass of a signal owned by node v that reads the value and
\* stops with the collected subscriber ends with the slot (v, 0) and not
\* learning; a value_mut after it sets invalid and leaves the slot (v, 0).
C13_RoundTrip ==
    /\ (hist.op = "stop_proxy" /\ hist.round)
           => signal.proxy.sub = <<signal.proxy.node, 0>> /\ ~signal.proxy.learning
    /\ (hist.op = "value_mut" /\ hist.round)
           => /\ signal.proxy.invalid
              /\ signal.proxy.sub = <<signal.proxy.node, 0>>
              /\ signal.proxy.sub = hist.pre.signal.proxy.sub

\* The round trip of a signal owned by node 7 that held (3, 1), followed by
\* value_mut.
C13_Witness ==
    /\ hist.op = "value_mut"
    /\ hist.round
    /\ signal.proxy.node = 7
    /\ hist.ret = Sub_3_1
    /\ signal.proxy.sub = <<7, 0>>

\* C14: from a clean proxy, after one or more set(n) outside a learning
\* pass, dirty is the OR of the flags over 0 and is not the clean value -1.
C14_DirtyAccumulation ==
    (hist.cnt >= 1 /\ ~proxy.learning)
        => proxy.dirty = hist.acc /\ proxy.dirty # -1

\* C20: while no start_proxy has followed the last stop_proxy, the
\* subscribers are the ones that stop_proxy installed, whatever was read or
\* written since; value_mut changes the invalid flag and the value only.
C20_SubscriptionsFrozen ==
    /\ hist.inst.some => signal.proxy.sub = hist.inst.subs
    /\ hist.instP.some => proxy.subs = hist.instP.subs
    /\ hist.op = "value_mut"
           => /\ signal.proxy = [hist.pre.signal.proxy EXCEPT !.invalid = TRUE]
              /\ proxy = hist.pre.proxy

\* Reads and a write after a stop_proxy that installed a subscriber list of
\* the Proxy and a slot of the Signal.
C20_Witness ==
    /\ hist.inst.some
    /\ hist.instP.some
    /\ hist.instP.subs # <<>>
    /\ hist.op = "value_mut"
    /\ proxy.dirty # -1

\* ------------------------------------------------ hydration on its own
\* The payload's "subs" member is what get_subs wrote at generation time:
\* one array per proxy, one string "node generation" per subscriber
\* (format!("{} {}"), 386 and 427).
i64_to_string(n) == IF n < 0 THEN <<"-">> \o to_string(-n) ELSE to_string(n)

\* str::parse::<i64>(): an optional sign, then digits.
parse_i64(s) ==
    IF s # <<>> /\ s[1] = "-"
    THEN [ok |-> parse_usize(Tail(s)).ok, val |-> -parse_usize(Tail(s)).val]
    ELSE IF s # <<>> /\ s[1] = "+" THEN parse_usize(Tail(s))
    ELSE parse_usize(s)

get_subs(subs) ==
    [i \in 1..Len(subs) |-> to_string(subs[i][1]) \o <<" ">> \o i64_to_string(subs[i][2])]

\* get_state, 660-662: one subscriber string to a Sub.
parse_sub(str) ==
    LET nums == split(str, " ")
    IN  IF Len(nums) < 2 THEN [ok |-> FALSE, sub |-> <<0, 0>>]
        ELSE [ok  |-> parse_usize(nums[1]).ok /\ parse_i64(nums[2]).ok,
              sub |-> <<parse_usize(nums[1]).val, parse_i64(nums[2]).val>>]

\* get_state, 655-665: the subscriber table in payload order; 647-650: every
\* object of the payload becomes Obj::Js.
get_state_subs(arrs) ==
    [ok   |-> \A i \in 1..Len(arrs) : \A k \in 1..Len(arrs[i]) : parse_sub(arrs[i][k]).ok,
     subs |-> [i \in 1..Len(arrs) |-> [k \in 1..Len(arrs[i]) |-> parse_sub(arrs[i][k]).sub]]]

JsValue(v) == [kind |-> "Js", h |-> 0, v |-> v]

get_state(payload) ==
    IF get_state_subs(payload.subs).ok
    THEN [some |-> TRUE, payload |-> payload, panic |-> "",
          objs |-> [i \in 1..Len(payload.objs) |-> JsValue(payload.objs[i])],
          subs |-> get_state_subs(payload.subs).subs]
    ELSE [some |-> FALSE, payload |-> payload, panic |-> "get_state: malformed subscriber",
          objs |-> <<>>, subs |-> <<>>]

\* A resume that aborts: the store as the panic left it, nothing returned.
resume_panic(st, why) == [store |-> [st EXCEPT !.panic = why], ret |-> Signal_new(0)]

\* A resume that takes the first list of the table instead of the last.
Signal_resume_first(st, n) ==
    IF n + 1 > Len(st.objs) THEN resume_panic(st, "index out of bounds")
    ELSE IF st.objs[n + 1].kind # "Js"
    THEN resume_panic(st, "expected JavaScript value when resuming")
    ELSE IF st.objs[n + 1].v.json # "number"
    THEN resume_panic(st, "resume: from_value failed")
    ELSE IF st.subs = <<>> THEN resume_panic(st, "problem getting subs")
    ELSE IF Head(st.subs) = <<>>
    THEN resume_panic([st EXCEPT !.subs = Tail(@)], "index out of bounds")
    ELSE [store |-> [st EXCEPT !.subs = Tail(@)],
          ret   |-> [proxy |-> SignalProxy_from(Head(st.subs)[1]),
                     value |-> st.objs[n + 1].v.n]]

\* Signal::resume (318-327) on the store st: the store after and the signal
\* returned.
Signal_resume(st, n) ==
    IF n + 1 > Len(st.objs) THEN resume_panic(st, "index out of bounds")
    ELSE IF st.objs[n + 1].kind # "Js"
    THEN resume_panic(st, "expected JavaScript value when resuming")
    ELSE IF st.objs[n + 1].v.json # "number"
    THEN resume_panic(st, "resume: from_value failed")
    ELSE IF st.subs = <<>> THEN resume_panic(st, "problem getting subs")
    ELSE IF st.subs[Len(st.subs)] = <<>>
    THEN resume_panic([st EXCEPT !.subs = SubSeq(@, 1, Len(@) - 1)], "index out of bounds")
    ELSE [store |-> [st EXCEPT !.subs = SubSeq(@, 1, Len(@) - 1)],
          ret   |-> [proxy |-> SignalProxy_from(st.subs[Len(st.subs)][1]),
                     value |-> st.objs[n + 1].v.n]]

\* The subscriber lists the proxies of the generated page held, the tables
\* of up to MaxLists of them, and the payloads: a table as written by
\* get_subs, or one with a string that is no pair.
MaxLists == 3

SubLists == {<<>>, << <<3, 0>> >>, << <<5, 1>> >>, << <<7, -1>>, <<3, 0>> >>}

SubTables == UNION {[1..n -> SubLists] : n \in 0..MaxLists}

PayloadObjs == <<[json |-> "number", n |-> 4], [json |-> "string", n |-> 0],
                [json |-> "number", n |-> 5]>>

Payloads ==
    {[objs |-> PayloadObjs, subs |-> [i \in 1..Len(t) |-> get_subs(t[i])], table |-> t] :
        t \in SubTables}
    \cup {[objs |-> PayloadObjs, subs |-> << <<bad>> >>, table |-> <<>>] :
            bad \in {<<"3">>, <<"3", " ", "x">>}}

\* store: the payload before get_state, the AppState after.  hist: resumed
\* (per successful resume, the slot of the signal returned), arg and pre
\* (the slot number and the store of the last resume).
InitResume ==
    /\ InitProgram
    /\ nodes = Doc1
    /\ signal = Signal_new(0)
    /\ proxy = Proxy_new(<<>>)
    /\ \E p \in Payloads :
           store = [some |-> FALSE, payload |-> p, panic |-> "", objs |-> <<>>, subs |-> <<>>]
    /\ vec = <<>>
    /\ hist = [op |-> "none", steps |-> 0, resumed |-> <<>>, arg |-> 0, pre |-> <<>>]

GetState ==
    /\ ~store.some
    /\ store.panic = ""
    /\ store' = get_state(store.payload)
    /\ hist' = [hist EXCEPT !.op = "get_state", !.steps = @ + 1]
    /\ UNCHANGED <<progvars, signal, proxy, vec>>

Resume(n) ==
    /\ store.some
    /\ store.panic = ""
    /\ store' = Signal_resume(store, n).store
    /\ signal' = IF store'.panic # "" THEN signal ELSE Signal_resume(store, n).ret
    /\ hist' = [hist EXCEPT !.op = "resume", !.steps = @ + 1, !.arg = n, !.pre = store,
                            !.resumed = IF store'.panic # "" THEN @
                                        ELSE Append(@, signal'.proxy.sub)]
    /\ UNCHANGED <<progvars, proxy, vec>>

\* The application puts the object it recovered from slot n back into the
\* table as a native object, through objs_mut (573-575).
Restore(n) ==
    /\ store.some
    /\ store.panic = ""
    /\ store.objs[n + 1].kind = "Js"
    /\ store' = [store EXCEPT !.objs[n + 1] = Rs(n + 1)]
    /\ hist' = [hist EXCEPT !.op = "restore", !.steps = @ + 1]
    /\ UNCHANGED <<progvars, signal, proxy, vec>>

NextResume ==
    \/ GetState
    \/ \E n \in 0..Len(PayloadObjs) : Resume(n)
    \/ \E n \in 0..(Len(PayloadObjs) - 1) : Restore(n)

SpecResume == InitResume /\ [][NextResume]_vars

\* C15: with the hydrated table [L1, .., Ln], the j-th successful resume
\* returned a signal whose slot is the first pair of L(n-j+1), and after j
\* successful resumes the table is [L1, .., L(n-j)].
C15_StackOrder ==
    LET t == store.payload.table
        n == Len(t)
        j == Len(hist.resumed)
    IN  store.some
            => /\ j <= n
               /\ \A i \in 1..j : t[n - i + 1] # <<>> /\ hist.resumed[i] = t[n - i + 1][1]
               /\ store.panic = "" => store.subs = SubSeq(t, 1, n - j)

\* Two resumes of the table [[(3, 0)], [(5, 1)]]: the first got (5, 1), the
\* second (3, 0).
C15_Witness ==
    /\ store.some
    /\ store.payload.table = << << <<3, 0>> >>, << <<5, 1>> >> >>
    /\ hist.resumed = << <<5, 1>>, <<3, 0>> >>
    /\ store.subs = <<>>

\* ------------------------------- the ordered shared-child collection
\* RefVec (209-276).  An element is [id, pos, item]: id stands for the
\* Rc<RefCell<T>> allocation, pos and item are what T::new(pos, item) stored.
RefChild_new(id, pos, item) == [id |-> id, pos |-> pos, item |-> item]

\* push (238-240).
RefVec_push(v, t, id) == Append(v, RefChild_new(id, Len(v), t))

\* append (244-251): the items in order, n counting up from the length.
RECURSIVE RefVec_append(_, _, _)
RefVec_append(v, ts, id) ==
    IF ts = <<>> THEN v
    ELSE RefVec_append(Append(v, RefChild_new(id, Len(v), Head(ts))), Tail(ts), id + 1)

\* clear (252-254).
RefVec_clear(v) == <<>>

\* A removal that leaves the positions of the later elements as they were.
RefVec_remove_stale(v, index) ==
    IF index + 1 > Len(v)
    THEN [vec |-> v, some |-> FALSE, ret |-> RefChild_new(0, 0, ""), panic |-> "split_off: at > len"]
    ELSE [vec |-> SubSeq(v, 1, index) \o SubSeq(v, index + 2, Len(v)),
          some |-> TRUE, ret |-> v[index + 1], panic |-> ""]

\* remove (258-266): split_off(index + 1) panics beyond the length; the
\* element at index is popped; every later element's pos is decremented
\* (a pos of 0 there overflows the subtraction: it needs an element put
\* behind another by swap or push_ref).
RefVec_remove(v, index) ==
    IF index + 1 > Len(v)
    THEN [vec |-> v, some |-> FALSE, ret |-> RefChild_new(0, 0, ""), panic |-> "split_off: at > len"]
    ELSE IF \E k \in (index + 2)..Len(v) : v[k].pos = 0
    THEN [vec |-> SubSeq(v, 1, index), some |-> FALSE, ret |-> v[index + 1],
          panic |-> "attempt to subtract with overflow"]
    ELSE [vec |-> SubSeq(v, 1, index)
                    \o [k \in 1..(Len(v) - index - 1) |->
                           [v[index + 1 + k] EXCEPT !.pos = @ - 1]],
          some |-> TRUE, ret |-> v[index + 1], panic |-> ""]

\* remove where the subtraction wraps instead of panicking (overflow checks
\* off): a pos of 0 becomes the largest usize, here at a width of 8 bits.
UsizeMax == 255

RefVec_remove_wrapping(v, index) ==
    IF index + 1 > Len(v) THEN RefVec_remove(v, index)
    ELSE [vec |-> SubSeq(v, 1, index)
                    \o [k \in 1..(Len(v) - index - 1) |->
                           [v[index + 1 + k] EXCEPT !.pos = IF @ = 0 THEN UsizeMax ELSE @ - 1]],
          some |-> TRUE, ret |-> v[index + 1], panic |-> ""]

\* swap (255-257): the two slots exchange their handles; Vec::swap panics on
\* an index beyond the length.
RefVec_swap(v, a, b) ==
    IF a + 1 > Len(v) \/ b + 1 > Len(v) THEN [vec |-> v, panic |-> "index out of bounds"]
    ELSE [vec |-> [v EXCEPT ![a + 1] = v[b + 1], ![b + 1] = v[a + 1]], panic |-> ""]

\* vec: the collection, empty at first.  hist: op, arg, steps, pre (the
\* collection before), ret (the handle remove returned), ids (allocations so
\* far), panic.
MaxLen == 4

Items == {"a", "b"}

ItemLists == {<<>>, <<"a">>, <<"b", "a">>}

InitRefVec ==
    /\ InitProgram
    /\ nodes = Doc1
    /\ signal = Signal_new(0)
    /\ proxy = Proxy_new(<<>>)
    /\ store = [objs |-> <<>>, subs |-> <<>>]
    /\ vec = <<>>
    /\ hist = [op |-> "new", arg |-> 0, steps |-> 0, pre |-> <<>>,
               ret |-> RefChild_new(0, 0, ""), ids |-> 0, panic |-> ""]

DidVec(h, op) ==
    /\ hist.steps < MaxSteps
    /\ hist.panic = ""
    /\ hist' = [h EXCEPT !.op = op, !.steps = hist.steps + 1, !.pre = vec]
    /\ UNCHANGED <<progvars, signal, proxy, store>>

Push(t) ==
    /\ Len(vec) < MaxLen
    /\ vec' = RefVec_push(vec, t, hist.ids + 1)
    /\ DidVec([hist EXCEPT !.ids = @ + 1], "push")

AppendItems(ts) ==
    /\ Len(vec) + Len(ts) <= MaxLen
    /\ vec' = RefVec_append(vec, ts, hist.ids + 1)
    /\ DidVec([hist EXCEPT !.ids = @ + Len(ts)], "append")

\* remove(i), with either outcome of a subtraction that overflows.
Remove(i) ==
    \E r \in {RefVec_remove(vec, i), RefVec_remove_wrapping(vec, i)} :
        /\ vec' = r.vec
        /\ DidVec([hist EXCEPT !.arg = i, !.ret = r.ret, !.panic = r.panic], "remove")

Clear ==
    /\ vec' = RefVec_clear(vec)
    /\ DidVec(hist, "clear")

NextRefVec ==
    \/ \E t \in Items : Push(t)
    \/ \E ts \in ItemLists : AppendItems(ts)
    \/ \E i \in 0..Len(vec) : Remove(i)
    \/ Clear

SpecRefVec == InitRefVec /\ [][NextRefVec]_vars

\* C16: after any sequence of push, append, remove(i) with 0 <= i < len and
\* clear from the empty collection, every element's pos is its index;
\* remove(i) returns the element that was at index i and leaves the others,
\* one fewer, in the order they had.
C16_Positions ==
    /\ hist.panic = "" => \A k \in 1..Len(vec) : vec[k].pos = k - 1
    /\ (hist.op = "remove" /\ hist.arg < Len(hist.pre))
           => /\ hist.panic = ""
              /\ hist.ret.id = hist.pre[hist.arg + 1].id
              /\ Len(vec) = Len(hist.pre) - 1
              /\ \A k \in 1..Len(vec) :
                     /\ vec[k].id = hist.pre[IF k <= hist.arg THEN k ELSE k + 1].id
                     /\ vec[k].item = hist.pre[IF k <= hist.arg THEN k ELSE k + 1].item

\* Index 1 of 4 removed: the positions of the three left are 0, 1, 2.
C16_Witness ==
    /\ hist.op = "remove"
    /\ hist.arg = 1
    /\ Len(hist.pre) = 4
    /\ hist.panic = ""
    /\ [k \in 1..Len(vec) |-> vec[k].pos] = <<0, 1, 2>>

\* ------------------------------------------------ recall ids over time
\* The entry points on one document, with fewer inputs and more of them in
\* a row: a tree is rendered, replaced and rendered again, and rids are
\* recalled after their elements are gone.  V_two carries two on:
\* attributes.
MaxRidOps == 4

V_two == Element("span", <<Attribute(K_on, D_f_0), Attribute(K_on2, D_g_two)>>, <<>>)

RidTrees == {R_btns, R_same, Component(<<V_div, V_two>>)}

InitRid == Init /\ nodes = Doc3

RidReady == phase = "ready" /\ panicked = "" /\ ops < MaxRidOps

RidCall ==
    /\ RidReady
    /\ Commit(call(State, D_f_empty, NID_7, NoBehaviour),
              [NoLast EXCEPT !.op = "call", !.desc = D_f_empty, !.nid = NID_7])

RidRerender(t) ==
    /\ RidReady
    /\ Commit(rerender(State, t), [NoLast EXCEPT !.op = "rerender", !.rsx = t])

RidRecall(r, b) ==
    /\ RidReady
    /\ Commit(recall(State, r, b), [NoLast EXCEPT !.op = "recall", !.rid = r, !.beh = b])

NextRid ==
    \/ Hydrate
    \/ Setup
    \/ RidCall
    \/ \E t \in RidTrees : RidRerender(t)
    \/ \E r \in {<<"0">>, <<"1">>}, b \in Behaviours : RidRecall(r, b)

SpecRid == InitRid /\ [][NextRid]_vars

\* The rid attributes of the nodes created since the document had n nodes.
NewRids(n) ==
    {RidOf(nodes', k) : k \in {j \in (n + 1)..Len(nodes') : RidOf(nodes', j) # <<>>}}

\* One entry point: the counter does not decrease, the keys that are new are
\* counter values it passed, every rid stamped on a new element is one of
\* them, a key that was below the counter and absent stays absent, and a
\* recall of an absent rid returns false.
RidStep ==
    /\ rid' >= rid
    /\ (DOMAIN recalls' \ DOMAIN recalls) \subseteq {to_string(k) : k \in rid..(rid' - 1)}
    /\ NewRids(Len(nodes)) \subseteq {to_string(k) : k \in rid..(rid' - 1)}
    /\ Cardinality({k \in (Len(nodes) + 1)..Len(nodes') : RidOf(nodes', k) # <<>>})
           = Cardinality(NewRids(Len(nodes)))
    /\ \A k \in 0..(rid - 1) :
           to_string(k) \notin DOMAIN recalls => to_string(k) \notin DOMAIN recalls'
    /\ (last'.op = "recall" /\ last'.rid \notin DOMAIN recalls) => last'.result = FALSE

\* C21: rids are the values of a counter that only grows, one per
\* materialized on: attribute: every key of the recall table is below the
\* counter, no two elements are stamped with the same rid, and a rid whose
\* entry is retired never names an entry again, so recall of it is false.
C21_SequentialRids ==
    /\ [](\A key \in DOMAIN recalls : parse_usize(key).ok /\ parse_usize(key).val < rid)
    /\ [][RidStep]_vars

\* The entry "0" was retired, a later materialization got "1", and recall
\* of "0" returned false.
C21_Witness ==
    /\ last.op = "recall"
    /\ last.rid = <<"0">>
    /\ last.result = FALSE
    /\ panicked = ""
    /\ rid >= 2
    /\ <<"0">> \notin DOMAIN recalls
    /\ <<"1">> \in DOMAIN recalls
    /\ \E n \in 1..Len(nodes) : Owns(nodes, n, <<"0">>)

\* The collection with swap among its operations.
Swap(a, b) ==
    /\ vec' = RefVec_swap(vec, a, b).vec
    /\ DidVec([hist EXCEPT !.arg = a, !.panic = RefVec_swap(vec, a, b).panic], "swap")

NextRefVecSwap ==
    \/ \E t \in Items : Push(t)
    \/ \E ts \in ItemLists : AppendItems(ts)
    \/ \E i \in 0..Len(vec) : Remove(i)
    \/ Clear
    \/ \E a \in 0..Len(vec), b \in 0..Len(vec) : Swap(a, b)

SpecRefVecSwap == InitRefVec /\ [][NextRefVecSwap]_vars

\* C22: with swap among the operations, the pos fields of the stored
\* elements are pairwise distinct and are exactly 0 .. len-1; a swap changes
\* no pos; remove(i) with a valid i finds no pos of 0 behind index i.
C22_Permutation ==
    /\ hist.panic = ""
           => /\ {vec[k].pos : k \in 1..Len(vec)} = 0..(Len(vec) - 1)
              /\ \A k, l \in 1..Len(vec) : vec[k].pos = vec[l].pos => k = l
    /\ (hist.op = "swap" /\ hist.panic = "")
           => {<<vec[k].id, vec[k].pos>> : k \in 1..Len(vec)}
                  = {<<hist.pre[k].id, hist.pre[k].pos>> : k \in 1..Len(hist.pre)}
    /\ (hist.op = "remove" /\ hist.arg < Len(hist.pre))
           => \A k \in (hist.arg + 2)..Len(hist.pre) : hist.pre[k].pos # 0

\* C23: resume of a slot that is not Obj::Js aborts with the subscriber
\* table as it was; resume on an empty subscriber table aborts; resume of a
\* Js slot whose value has the expected shape, on a table that is not empty,
\* returns, takes exactly one list off and leaves the object table alone.
C23_ResumeModes ==
    (hist.op = "resume" /\ hist.arg < Len(hist.pre.objs))
        => /\ hist.pre.objs[hist.arg + 1].kind # "Js"
                  => store.panic # "" /\ store.subs = hist.pre.subs
           /\ hist.pre.subs = <<>> => store.panic # ""
           /\ (/\ hist.pre.objs[hist.arg + 1].kind = "Js"
               /\ hist.pre.objs[hist.arg + 1].v.json = "number"
               /\ hist.pre.subs # <<>>)
                  => /\ store.panic = ""
                     /\ Len(store.subs) = Len(hist.pre.subs) - 1
                     /\ store.objs = hist.pre.objs

\* C24: a lexical_scope that returns leaves the active identifiers, the
\* object table and every object behind it (the collections and the
\* learning, invalid, dirty and subscriber slot of every signal) as they
\* were before the call.
C24_ScopeReadOnly ==
    (last.op = "lexical_scope" /\ panicked = "")
        => /\ ids = last.pre.ids
           /\ app = last.pre.app
           /\ heap = last.pre.heap

====
